---- MODULE Spec2Model ----
(***************************************************************************)
(* The swap command of exec-rs (src/exec-rs/src/commands/swap.rs) as a     *)
(* sequential state machine: wallet load, route, swap-transaction fetch,   *)
(* decode and sign, compute-budget injection, mode dispatch, broadcast,    *)
(* the confirmation polling loop, metadata fetch, extraction, and the      *)
(* ExecutorResult built by SwapCommand::execute.  Every answer of the      *)
(* aggregator and of the RPC endpoint is a nondeterministic choice.        *)
(***************************************************************************)
EXTENDS Integers, Naturals, Sequences, FiniteSets, TLC

VARIABLES
  self,                      \* the SwapCommand's fields
  pc,                        \* position in execute / execute_swap / execute_simple_swap
  route,                     \* execute_swap: route_info (the local)
  swap_response,             \* execute_swap: swap_response.swap_transaction
  decoded,                   \* the transaction as bincode::deserialize returned it
  transaction,               \* execute_swap: transaction
  instruction_count,         \* add_compute_budget_instructions: instruction_count
  compute_limit,             \* add_compute_budget_instructions: compute_limit
  current_block_height,      \* execute_simple_swap: H0
  last_valid_block_height,   \* execute_simple_swap: H0 + 150
  signature,                 \* execute_simple_swap: signature
  attempts,                  \* execute_simple_swap: attempts
  current_height,            \* execute_simple_swap: current_height of the iteration
  status,                    \* the last answer of get_signature_status
  confirmed_tx,              \* execute_simple_swap: confirmed_tx
  received_amount,           \* execute_simple_swap: received_amount
  err,                       \* the Err execute_swap returns, "none" while there is none
  result,                    \* the ExecutorResult of execute
  calls,                     \* how often each external call was issued
  simulation_result,         \* simulate_swap: simulation_result.value
  compute_units_used,        \* simulate_swap: compute_units_used
  expected_out,              \* simulate_swap: expected_out
  ping_slot,                 \* ping_rpc: slot
  stdout,                    \* main: the records printed
  exit_code,                 \* main: the exit code of the process
  invocation,                \* which run of the executable this is
  earlier_broadcasts,        \* send_transaction requests of the runs before
  wallet_data,               \* load_wallet: the content of the wallet file
  amount_str,                \* parse_amount: amount_str
  lamports                   \* parse_amount: the Result<u64> returned

vars == <<self, pc, route, swap_response, decoded, transaction, instruction_count,
          compute_limit, current_block_height, last_valid_block_height, signature,
          attempts, current_height, status, confirmed_tx, received_amount, err,
          result, calls, simulation_result, compute_units_used, expected_out, ping_slot,
          stdout, exit_code, invocation, earlier_broadcasts, wallet_data,
          amount_str, lamports>>

----------------------------------------------------------------------------
(* Bounds of the model *)
MaxInstr == 2
MaxH0 == 1
MaxCount == 86000
MaxBalances == 3
MaxLogs == 2
MaxSlot == 4
WalletSlack == 2
MaxAmountLen == 4

(* Constants of the program *)
BaseLimit == 200000
PerInstruction == 50000
MaxComputeUnits == 1400000
DefaultPriorityFee == 1000
ExpiryWindow == 150
max_attempts == 60
SimulationLimit == 400000
SimulationPrice == 1000
KeyLength == 64
LamportsPerSol == 1000000000
MantissaBits == 53

(* Option<T>: None is the empty sequence, Some(x) the sequence of x alone *)
None == <<>>
Some(x) == <<x>>
IsSome(o) == o # <<>>
Unwrap(o) == o[1]

WalletPubkey == "wallet"
OutputMint == "out"

----------------------------------------------------------------------------
(* Inputs *)
Modes == {"simple", "jito", "bloxroute", "turbo"}
RouteInfos == {None, Some("route_json"), Some("not_json")}

(* serde_json::Value, restricted to what the commands read of a route: whether it
   has an "outAmount" member and whether that member is a JSON string *)
JsonString(text) == [kind |-> "string", text |-> text]
JsonNumber(text) == [kind |-> "number", text |-> text]
JsonRoute(out_amount) == [outAmount |-> out_amount]

(* serde_json::from_str: the value a text stands for, None for a text that is
   not JSON *)
FromStr(text) ==
  CASE text = "route_json" -> Some(JsonRoute(Some(JsonString("42"))))
    [] text = "route_without_out" -> Some(JsonRoute(None))
    [] text = "route_number_out" -> Some(JsonRoute(Some(JsonNumber("42"))))
    [] OTHER -> None

(* the quotes the aggregator can answer get_quote with *)
Quotes ==
  {JsonRoute(Some(JsonString("43"))), JsonRoute(None),
   JsonRoute(Some(JsonNumber("43")))}

Quote == JsonRoute(Some(JsonString("43")))
PriorityFees == {None, Some(5000)}
ComputeUnitLimits == {None, Some(1500000)}
IdempotencyKeys == {None, Some("key1")}

SwapCommand ==
  [mode : Modes, idempotency_key : IdempotencyKeys, route_info : RouteInfos,
   priority_fee : PriorityFees, compute_unit_limit : ComputeUnitLimits]

WalletFiles == {"keypair", "invalid"}

(* The base64 payloads the aggregator can answer with.  The fee payer of the
   transaction in it is the wallet, or an account the wallet has no key of
   ("placeholder": the wallet is no signer of the message), or a relayer that
   has signed already and has the wallet as a second signer. *)
Payloads ==
  [valid : {TRUE}, n : 0 .. MaxInstr, payer : {WalletPubkey, "placeholder"}]
    \cup [valid : {TRUE}, n : {1}, payer : {"relayer"}]
    \cup [valid : {FALSE}, n : {0}, payer : {"placeholder"}]

(* Block heights the RPC endpoint can answer with while polling: both sides of
   every expiry bound H0 + 150 *)
Heights == {ExpiryWindow + h : h \in 0 .. (MaxH0 + 1)}

(* Option<Result<(), TransactionError>> *)
SignatureStatuses == {None, Some("Ok"), Some("Err")}

Balance(mint, amount) == [mint |-> mint, amount |-> amount]

(* Confirmed transactions get_transaction_with_config can answer with; meta and
   meta.post_token_balances are Options *)
ConfirmedTxs ==
  [slot : {100},
   meta : {None, Some(Some(<<Balance("other", "7"), Balance(OutputMint, "5")>>))}]

CallNames == {"get_quote", "get_swap_transaction", "send_transaction",
              "get_block_height", "get_signature_status", "sleep",
              "get_transaction", "simulate_transaction", "get_slot",
              "get_epoch_info", "get_latest_blockhash", "get_account"}

----------------------------------------------------------------------------
(* Transactions *)
SwapIx(i) == [kind |-> "swap", value |-> i]
LimitIx(units) == [kind |-> "limit", value |-> units]
PriceIx(fee) == [kind |-> "price", value |-> fee]

NoMessage == [instructions |-> <<>>, payer |-> "nobody", recent_blockhash |-> "none"]

NoTx == [instructions |-> <<>>, payer |-> "nobody", recent_blockhash |-> "none",
         signed_over |-> NoMessage]

MessageOf(tx) ==
  [instructions |-> tx.instructions, payer |-> tx.payer,
   recent_blockhash |-> tx.recent_blockhash]

(* base64 decode and bincode::deserialize of the aggregator's payload *)
Decode(p) ==
  [instructions |-> [i \in 1 .. p.n |-> SwapIx(i)],
   payer |-> p.payer,
   recent_blockhash |-> "blockhash0",
   signed_over |-> NoMessage]

(* Transaction::sign: the signature covers the message as it is now *)
Sign(tx) == [tx EXCEPT !.signed_over = MessageOf(tx)]

(* Transaction::sign panics when the keypair is not a signer of the message, or
   when a signature of another signer is still missing afterwards *)
CanSign(tx) == tx.payer \in {WalletPubkey, "relayer"}

----------------------------------------------------------------------------
(* 32-bit unsigned arithmetic, on 16-bit limbs *)
Limb == 2 ^ 16

U32(hi, lo) == [hi |-> hi, lo |-> lo]

U32Of(x) == U32((x \div Limb) % Limb, x % Limb)

(* wrapping multiplication by a factor below 2^15 *)
WrappingMul(x, k) ==
  LET p == x.lo * k
  IN  U32((x.hi * k + (p \div Limb)) % Limb, p % Limb)

MulOverflows(x, k) ==
  LET p == x.lo * k
  IN  x.hi * k + (p \div Limb) >= Limb

WrappingAdd(x, y) ==
  LET s == x.lo + y.lo
  IN  U32((x.hi + y.hi + (s \div Limb)) % Limb, s % Limb)

AddOverflows(x, y) ==
  LET s == x.lo + y.lo
  IN  x.hi + y.hi + (s \div Limb) >= Limb

U32Less(x, y) == x.hi < y.hi \/ (x.hi = y.hi /\ x.lo < y.lo)

U32Min(x, y) == IF U32Less(x, y) THEN x ELSE y

(* the value of a u32 that is known to be below 2^31 *)
U32Value(x) == x.hi * Limb + x.lo

(* instruction_count * 50_000, as 25_000 * 2 to stay within the limbs *)
TimesPerInstruction(c) ==
  WrappingMul(WrappingMul(c, PerInstruction \div 2), 2)

(* the closure of unwrap_or_else: base_limit + instruction_count * 50_000, capped;
   the arithmetic wraps as a build without overflow checks wraps it *)
DynamicLimit(n) ==
  LET dynamic_limit == WrappingAdd(U32Of(BaseLimit), TimesPerInstruction(U32Of(n)))
  IN  U32Value(U32Min(dynamic_limit, U32Of(MaxComputeUnits)))

(* a build with overflow checks panics where the arithmetic would wrap *)
LimitOverflows(n) ==
  \/ MulOverflows(U32Of(n), PerInstruction \div 2)
  \/ MulOverflows(WrappingMul(U32Of(n), PerInstruction \div 2), 2)
  \/ AddOverflows(U32Of(BaseLimit), TimesPerInstruction(U32Of(n)))

(* mutation of ComputeLimitOf: the cap is applied to an explicit limit too *)
ComputeLimitOfCapped(cmd, n) ==
  IF IsSome(cmd.compute_unit_limit)
  THEN IF Unwrap(cmd.compute_unit_limit) > MaxComputeUnits
       THEN MaxComputeUnits
       ELSE Unwrap(cmd.compute_unit_limit)
  ELSE DynamicLimit(n)

ComputeLimitOf(cmd, n) ==
  IF IsSome(cmd.compute_unit_limit) THEN Unwrap(cmd.compute_unit_limit)
  ELSE DynamicLimit(n)

PriorityFeeOf(cmd) ==
  IF IsSome(cmd.priority_fee) THEN Unwrap(cmd.priority_fee) ELSE DefaultPriorityFee

(* mutation of BudgetInstructions: the price directive is pushed first *)
BudgetInstructionsPriceFirst(limit, fee, original) ==
  <<PriceIx(fee), LimitIx(limit)>> \o original

(* [limit, price, ...original instructions] *)
BudgetInstructions(limit, fee, original) ==
  <<LimitIx(limit), PriceIx(fee)>> \o original

(* mutation of AddComputeBudgetInstructions: the rebuilt transaction keeps the
   signature made before the directives were added *)
AddComputeBudgetInstructionsStaleSignature(cmd, tx) ==
  [instructions |->
     BudgetInstructions(ComputeLimitOf(cmd, Len(tx.instructions)),
                        PriorityFeeOf(cmd), tx.instructions),
   payer |-> WalletPubkey,
   recent_blockhash |-> tx.recent_blockhash,
   signed_over |-> tx.signed_over]

(* Message::new(&instructions, Some(&wallet.pubkey())) and Transaction::new(&[wallet], ..) *)
AddComputeBudgetInstructions(cmd, tx) ==
  Sign([instructions |->
          BudgetInstructions(ComputeLimitOf(cmd, Len(tx.instructions)),
                             PriorityFeeOf(cmd), tx.instructions),
        payer |-> WalletPubkey,
        recent_blockhash |-> tx.recent_blockhash,
        signed_over |-> NoMessage])

(* mutation of WantsBudget: the directives are injected unconditionally *)
WantsBudgetAlways(cmd) == TRUE

WantsBudget(cmd) == IsSome(cmd.priority_fee) \/ IsSome(cmd.compute_unit_limit)

(* mutation of FetchesQuote: a quote is fetched whatever the caller supplied *)
FetchesQuoteAlways(cmd) == TRUE

(* the else branch of if let Some(ref info) = self.route_info *)
FetchesQuote(cmd) == ~IsSome(cmd.route_info)

----------------------------------------------------------------------------
(* The confirmation loop's decisions *)
(* mutation of IsExpired: the bound is off by one block *)
IsExpiredLate(height, last_valid) == height > last_valid + 1

(* mutation of IsExpired: the bound itself already expires *)
IsExpiredAtBound(height, last_valid) == height >= last_valid

IsExpired(height, last_valid) == height > last_valid

(* mutation of StatusBranch: an on-chain error is polled again like None *)
StatusBranchRetriesErr(st, n) ==
  IF st = Some("Ok") THEN "confirmed"
  ELSE IF n >= max_attempts THEN "timeout"
  ELSE "sleep"

(* mutation of StatusBranch: the ceiling is compared with > instead of >= *)
StatusBranchOffByOne(st, n) ==
  IF st = Some("Ok") THEN "confirmed"
  ELSE IF st = Some("Err") THEN "failed"
  ELSE IF n > max_attempts THEN "timeout"
  ELSE "sleep"

(* mutation of StatusBranch: the loop gives up one attempt early *)
StatusBranchGivesUpEarly(st, n) ==
  IF st = Some("Ok") THEN "confirmed"
  ELSE IF st = Some("Err") THEN "failed"
  ELSE IF n >= max_attempts - 1 THEN "timeout"
  ELSE "sleep"

(* the match on get_signature_status: where the loop goes *)
StatusBranch(st, n) ==
  IF st = Some("Ok") THEN "confirmed"
  ELSE IF st = Some("Err") THEN "failed"
  ELSE IF n >= max_attempts THEN "timeout"
  ELSE "sleep"

(* mutation of Propagate: the failed stage is run again *)
PropagateRetry(stage) == stage

(* the ? operator: an Err leaves execute_swap at once *)
Propagate(stage) == "returned"

(* mutation of AfterSend: the polling starts whatever send_transaction answered *)
AfterSendIgnoresErr(ok) == "poll_height"

(* where execute_swap goes after send_transaction answered *)
AfterSend(ok) == IF ok THEN "poll_height" ELSE Propagate("send")

(* mutation of ModeBranch: the unimplemented modes fall back to the simple path *)
ModeBranchFallsBack(mode) == "get_height"

(* mutation of ModeBranch: an unrecognised mode string is sent to the block engine *)
ModeBranchUnknownToJito(mode) ==
  IF mode = "simple" THEN "get_height"
  ELSE IF mode = "bloxroute" THEN "bloxroute"
  ELSE "jito"

(* the match on self.mode *)
ModeBranch(mode) ==
  IF mode = "jito" THEN "jito"
  ELSE IF mode = "bloxroute" THEN "bloxroute"
  ELSE "get_height"

(* mutation of FirstAmount: the last balance of the output mint is taken *)
RECURSIVE LastAmount(_, _)
LastAmount(balances, mint) ==
  IF balances = <<>> THEN "0"
  ELSE IF balances[Len(balances)].mint = mint THEN balances[Len(balances)].amount
  ELSE LastAmount(SubSeq(balances, 1, Len(balances) - 1), mint)

(* extract_received_amount: the first balance of the output mint, else "0" *)
RECURSIVE FirstAmount(_, _)
FirstAmount(balances, mint) ==
  IF balances = <<>> THEN "0"
  ELSE IF Head(balances).mint = mint THEN Head(balances).amount
  ELSE FirstAmount(Tail(balances), mint)

ExtractReceivedAmount(tx, mint) ==
  IF IsSome(tx.meta) /\ IsSome(Unwrap(tx.meta))
  THEN FirstAmount(Unwrap(Unwrap(tx.meta)), mint)
  ELSE "0"

(* format!("<prefix>{}", arg) *)
Format(prefix, arg) == <<prefix, arg>>

(* mutation of SuccessResult: the idempotency key is left out *)
SuccessResultWithoutKey(cmd, sig, amount, slot) ==
  [success |-> TRUE, signature |-> Some(sig), received_amount |-> Some(amount),
   slot |-> Some(slot), error |-> None,
   logs |-> Some(<<Format("Transaction signature: ", sig),
                   Format("Received amount: ", amount),
                   Format("Confirmed at slot: ", ToString(slot))>>),
   expected_out |-> None, compute_units_used |-> None,
   idempotency_key |-> None]

(* the two ExecutorResults of SwapCommand::execute *)
SuccessResult(cmd, sig, amount, slot) ==
  [success |-> TRUE, signature |-> Some(sig), received_amount |-> Some(amount),
   slot |-> Some(slot), error |-> None,
   logs |-> Some(<<Format("Transaction signature: ", sig),
                   Format("Received amount: ", amount),
                   Format("Confirmed at slot: ", ToString(slot))>>),
   expected_out |-> None, compute_units_used |-> None,
   idempotency_key |-> cmd.idempotency_key]

(* mutation of FailureResult: a failure after the broadcast keeps the signature *)
FailureResultKeepsSignature(cmd, e) ==
  [success |-> FALSE, signature |-> signature, received_amount |-> None,
   slot |-> None, error |-> Some(Format("Swap failed: ", e)),
   logs |-> Some(<<Format("Error: ", e)>>),
   expected_out |-> None, compute_units_used |-> None,
   idempotency_key |-> cmd.idempotency_key]

FailureResult(cmd, e) ==
  [success |-> FALSE, signature |-> None, received_amount |-> None,
   slot |-> None, error |-> Some(Format("Swap failed: ", e)),
   logs |-> Some(<<Format("Error: ", e)>>),
   expected_out |-> None, compute_units_used |-> None,
   idempotency_key |-> cmd.idempotency_key]

----------------------------------------------------------------------------
txVars == <<route, swap_response, decoded, transaction, instruction_count, compute_limit>>
pollVars == <<current_block_height, last_valid_block_height, signature, attempts,
              current_height, status>>
endVars == <<confirmed_tx, received_amount, result>>
utilVars == <<wallet_data, amount_str, lamports>>
runVars == <<invocation, earlier_broadcasts, utilVars>>
cmdVars == <<simulation_result, compute_units_used, expected_out, ping_slot, stdout,
             exit_code, runVars>>

(* the first run of the executable *)
FirstRun ==
  /\ invocation = 1
  /\ earlier_broadcasts = 0
  /\ wallet_data = None
  /\ amount_str = <<>>
  /\ lamports = None

Called(c) == calls' = [calls EXCEPT ![c] = @ + 1]

(* a stage returns Err(kind) *)
Fail(stage, kind) == pc' = Propagate(stage) /\ err' = kind

Defaults ==
  /\ route = None
  /\ swap_response = None
  /\ decoded = NoTx
  /\ transaction = NoTx
  /\ compute_limit = 0
  /\ current_block_height = 0
  /\ last_valid_block_height = 0
  /\ signature = None
  /\ attempts = 0
  /\ current_height = 0
  /\ status = None
  /\ confirmed_tx = None
  /\ received_amount = None
  /\ err = "none"
  /\ result = None
  /\ calls = [c \in CallNames |-> 0]
  /\ simulation_result = None
  /\ compute_units_used = 0
  /\ expected_out = None
  /\ ping_slot = None
  /\ stdout = <<>>
  /\ exit_code = None

Init ==
  /\ self \in SwapCommand
  /\ pc = "load_wallet"
  /\ instruction_count = 0
  /\ Defaults
  /\ FirstRun

(* utils::load_wallet(&self.wallet)? *)
LoadWallet ==
  /\ pc = "load_wallet"
  /\ \E file \in WalletFiles :
       IF file = "keypair"
       THEN pc' = "route" /\ err' = err
       ELSE Fail("load_wallet", "InvalidWalletFormat")
  /\ UNCHANGED <<self, cmdVars, txVars, pollVars, endVars, calls>>

(* serde_json::from_str(info)? when a route is supplied *)
ParseRoute ==
  /\ pc = "route"
  /\ IsSome(self.route_info)
  /\ IF IsSome(FromStr(Unwrap(self.route_info)))
     THEN route' = FromStr(Unwrap(self.route_info)) /\ pc' = "swap_tx" /\ err' = err
     ELSE route' = route /\ Fail("route", "RouteParse")
  /\ UNCHANGED <<self, cmdVars, swap_response, decoded, transaction, instruction_count,
                 compute_limit, pollVars, endVars, calls>>

(* jupiter.get_quote(..).await? when no route is supplied *)
GetQuote ==
  /\ pc = "route"
  /\ FetchesQuote(self)
  /\ Called("get_quote")
  /\ \E ok \in BOOLEAN :
       IF ok
       THEN route' = Some(Quote) /\ pc' = "swap_tx" /\ err' = err
       ELSE route' = route /\ Fail("route", "RouteUnavailable")
  /\ UNCHANGED <<self, cmdVars, swap_response, decoded, transaction, instruction_count,
                 compute_limit, pollVars, endVars>>

(* jupiter.get_swap_transaction(&route_info).await? *)
GetSwapTransaction ==
  /\ pc = "swap_tx"
  /\ Called("get_swap_transaction")
  /\ \/ \E p \in Payloads :
          swap_response' = Some(p) /\ pc' = "prepare" /\ err' = err
     \/ swap_response' = swap_response /\ Fail("swap_tx", "SwapBuildFailed")
  /\ UNCHANGED <<self, cmdVars, route, decoded, transaction, instruction_count,
                 compute_limit, pollVars, endVars>>

(* self.prepare_transaction(..)?: decode, deserialize, sign *)
PrepareTransaction ==
  /\ pc = "prepare"
  /\ LET p == Unwrap(swap_response)
     IN  IF ~p.valid
         THEN /\ Fail("prepare", "MalformedTransaction")
              /\ UNCHANGED <<decoded, transaction>>
         ELSE /\ decoded' = Decode(p)
              /\ err' = err
              /\ IF CanSign(Decode(p))
                 THEN transaction' = Sign(Decode(p)) /\ pc' = "budget"
                 ELSE transaction' = transaction /\ pc' = "panicked"
  /\ UNCHANGED <<self, cmdVars, route, swap_response, instruction_count, compute_limit,
                 pollVars, endVars, calls>>

(* if priority_fee.is_some() || compute_unit_limit.is_some() { add_compute_budget_instructions } *)
ComputeBudget ==
  /\ pc = "budget"
  /\ IF WantsBudget(self)
     THEN /\ instruction_count' = Len(transaction.instructions)
          /\ compute_limit' = ComputeLimitOf(self, Len(transaction.instructions))
          /\ transaction' = AddComputeBudgetInstructions(self, transaction)
     ELSE UNCHANGED <<instruction_count, compute_limit, transaction>>
  /\ pc' = "dispatch"
  /\ UNCHANGED <<self, cmdVars, route, swap_response, decoded, pollVars, endVars, err, calls>>

(* match self.mode.as_str() *)
Dispatch ==
  /\ pc = "dispatch"
  /\ pc' = ModeBranch(self.mode)
  /\ UNCHANGED <<self, cmdVars, txVars, pollVars, endVars, err, calls>>

(* execute_jito_swap *)
ExecuteJitoSwap ==
  /\ pc = "jito"
  /\ Fail("jito", "JitoNotImplemented")
  /\ UNCHANGED <<self, cmdVars, txVars, pollVars, endVars, calls>>

(* execute_bloxroute_swap *)
ExecuteBloxrouteSwap ==
  /\ pc = "bloxroute"
  /\ Fail("bloxroute", "BloxrouteNotImplemented")
  /\ UNCHANGED <<self, cmdVars, txVars, pollVars, endVars, calls>>

(* execute_simple_swap: let current_block_height = client.get_block_height()? *)
GetBlockHeight ==
  /\ pc = "get_height"
  /\ Called("get_block_height")
  /\ \/ \E h \in 0 .. MaxH0 :
          /\ current_block_height' = h
          /\ last_valid_block_height' = h + ExpiryWindow
          /\ pc' = "send"
          /\ err' = err
     \/ /\ Fail("get_height", "RpcUnavailable")
        /\ UNCHANGED <<current_block_height, last_valid_block_height>>
  /\ UNCHANGED <<self, cmdVars, txVars, signature, attempts, current_height, status, endVars>>

(* let signature = client.send_transaction(&transaction)? *)
SendTransaction ==
  /\ pc = "send"
  /\ Called("send_transaction")
  /\ \E ok \in BOOLEAN :
       /\ pc' = AfterSend(ok)
       /\ IF ok
          THEN signature' = Some("sig") /\ err' = err
          ELSE signature' = signature /\ err' = "BroadcastFailed"
  /\ UNCHANGED <<self, cmdVars, txVars, current_block_height, last_valid_block_height,
                 attempts, current_height, status, endVars>>

(* loop head: attempts += 1; get_block_height()?; the expiry check *)
PollHeight ==
  /\ pc = "poll_height"
  /\ attempts' = attempts + 1
  /\ Called("get_block_height")
  /\ \/ \E h \in Heights :
          /\ current_height' = h
          /\ IF IsExpired(h, last_valid_block_height)
             THEN Fail("poll_height", "Expired")
             ELSE pc' = "poll_status" /\ err' = err
     \/ /\ Fail("poll_height", "RpcUnavailable")
        /\ current_height' = current_height
  /\ UNCHANGED <<self, cmdVars, txVars, current_block_height, last_valid_block_height,
                 signature, status, endVars>>

(* match client.get_signature_status(&signature)?; current_height is a local of
   the loop body and is gone when the body is left *)
PollStatus ==
  /\ pc = "poll_status"
  /\ Called("get_signature_status")
  /\ \/ \E st \in SignatureStatuses :
          /\ status' = st
          /\ LET branch == StatusBranch(st, attempts)
             IN  CASE branch = "confirmed" ->
                        pc' = "fetch" /\ err' = err /\ current_height' = 0
                   [] branch = "failed" ->
                        Fail("poll_status", "Failed") /\ current_height' = 0
                   [] branch = "timeout" ->
                        Fail("poll_status", "TimedOut") /\ current_height' = 0
                   [] OTHER ->
                        pc' = "sleep" /\ err' = err /\ current_height' = current_height
     \/ /\ Fail("poll_status", "RpcUnavailable")
        /\ status' = status
        /\ current_height' = 0
  /\ UNCHANGED <<self, cmdVars, txVars, current_block_height, last_valid_block_height,
                 signature, attempts, endVars>>

(* std::thread::sleep(1 s); the loop body ends and the next iteration starts *)
Sleep ==
  /\ pc = "sleep"
  /\ Called("sleep")
  /\ pc' = "poll_height"
  /\ current_height' = 0
  /\ UNCHANGED <<self, cmdVars, txVars, current_block_height, last_valid_block_height,
                 signature, attempts, status, endVars, err>>

(* client.get_transaction_with_config(&signature, ..)? *)
GetTransaction ==
  /\ pc = "fetch"
  /\ Called("get_transaction")
  /\ \/ \E tx \in ConfirmedTxs :
          confirmed_tx' = Some(tx) /\ pc' = "extract" /\ err' = err
     \/ confirmed_tx' = confirmed_tx /\ Fail("fetch", "RpcUnavailable")
  /\ UNCHANGED <<self, cmdVars, txVars, pollVars, received_amount, result>>

(* self.extract_received_amount(&confirmed_tx)?; Ok((signature, received_amount, slot)) *)
ExtractAmount ==
  /\ pc = "extract"
  /\ received_amount' = Some(ExtractReceivedAmount(Unwrap(confirmed_tx), OutputMint))
  /\ pc' = "returned"
  /\ UNCHANGED <<self, cmdVars, txVars, pollVars, confirmed_tx, result, err, calls>>

(* SwapCommand::execute: match self.execute_swap(&client).await *)
Execute ==
  /\ pc = "returned"
  /\ result' = Some(IF err = "none"
                    THEN SuccessResult(self, Unwrap(signature), Unwrap(received_amount),
                                       Unwrap(confirmed_tx).slot)
                    ELSE FailureResult(self, err))
  /\ pc' = "exit"
  /\ UNCHANGED <<self, cmdVars, txVars, pollVars, confirmed_tx, received_amount, err, calls>>

Next ==
  \/ LoadWallet
  \/ ParseRoute
  \/ GetQuote
  \/ GetSwapTransaction
  \/ PrepareTransaction
  \/ ComputeBudget
  \/ Dispatch
  \/ ExecuteJitoSwap
  \/ ExecuteBloxrouteSwap
  \/ GetBlockHeight
  \/ SendTransaction
  \/ PollHeight
  \/ PollStatus
  \/ Sleep
  \/ GetTransaction
  \/ ExtractAmount
  \/ Execute

Spec == Init /\ [][Next]_vars

(* the program is sequential and every call returns: it always takes its next step *)
FairSpec == Spec /\ WF_vars(Next)

----------------------------------------------------------------------------
(* The derived compute-unit limit as a function of the instruction count alone:
   add_compute_budget_instructions applied to a transaction of n instructions,
   with no explicit limit *)
LimitCommand ==
  [mode |-> "simple", idempotency_key |-> None, route_info |-> None,
   priority_fee |-> Some(5000), compute_unit_limit |-> None]

InitLimit ==
  /\ self = LimitCommand
  /\ pc = "limit_input"
  /\ instruction_count \in 0 .. MaxCount
  /\ Defaults
  /\ FirstRun

(* the arithmetic as a build without overflow checks does it *)
DeriveLimit ==
  /\ pc = "limit_input"
  /\ compute_limit' = ComputeLimitOf(self, instruction_count)
  /\ pc' = "limit_done"
  /\ UNCHANGED <<self, cmdVars, route, swap_response, decoded, transaction, instruction_count,
                 pollVars, endVars, err, calls>>

(* a build with overflow checks panics instead of wrapping *)
DeriveLimitPanics ==
  /\ pc = "limit_input"
  /\ LimitOverflows(instruction_count)
  /\ pc' = "limit_panicked"
  /\ UNCHANGED <<self, cmdVars, txVars, pollVars, endVars, err, calls>>

NextLimit ==
  \/ DeriveLimit
  \/ DeriveLimitPanics

SpecLimit == InitLimit /\ [][NextLimit]_vars

----------------------------------------------------------------------------
(* Properties of the confirmation engine *)

(* the terminal outcomes of the confirmation engine that this execution produced *)
ConfirmationOutcomes ==
  (IF status = Some("Ok") THEN {"Confirmed"} ELSE {})
    \cup ({err} \cap {"Failed", "Expired", "TimedOut"})

(* C1: a poll that reads a block height above H0 + 150 while no signature status
   has resolved ends the attempt as Expired at that very poll, whatever the
   attempt counter (1 to 60) is: never TimedOut, never a further poll. *)
ExpiredAtThatPoll ==
  [][(/\ pc = "poll_height"
      /\ status = None
      /\ current_height' > current_block_height + ExpiryWindow)
     => (/\ pc' = "returned"
         /\ err' = "Expired"
         /\ attempts' \in 1 .. max_attempts
         /\ calls'["get_signature_status"] = calls["get_signature_status"])]_vars

(* C1 witness: the expiry fires at the last attempt of the budget *)
ExpiredAtLastAttempt ==
  /\ err = "Expired"
  /\ attempts = max_attempts
  /\ current_height > current_block_height + ExpiryWindow

(* C2: a status query answering Some(Err) in an iteration whose height is within
   the window ends the attempt as Failed, not TimedOut or Expired, and after it
   no poll is made and nothing is sent again. *)
FailedOnStatusErr ==
  [][/\ (/\ pc = "poll_status"
         /\ current_height <= current_block_height + ExpiryWindow
         /\ status' = Some("Err"))
        => (pc' = "returned" /\ err' = "Failed")
     /\ err = "Failed"
        => (/\ err' = "Failed"
            /\ pc' = "exit"
            /\ calls' = calls)]_vars

(* C2 witness: the command ended on an on-chain error *)
EndedFailed ==
  /\ pc = "exit"
  /\ err = "Failed"
  /\ status = Some("Err")
  /\ ~Unwrap(result).success

(* C3: once a status query answered Some(Ok), the result of the invocation is
   never success = false. *)
ConfirmedStaysConfirmed ==
  (status = Some("Ok") /\ IsSome(result)) => Unwrap(result).success

(* C4: success = true is reported only after a broadcast whose signature status
   answered Some(Ok), never in the unimplemented modes or after any failure. *)
NoMisreportedSuccess ==
  (IsSome(result) /\ Unwrap(result).success)
    => (/\ calls["send_transaction"] = 1
        /\ IsSome(signature)
        /\ status = Some("Ok")
        /\ err = "none"
        /\ self.mode \notin {"jito", "bloxroute"})

(* C4 witness: a success is reported *)
SuccessReported == IsSome(result) /\ Unwrap(result).success

(* C5: after a successful broadcast the execution ends in exactly one of
   Confirmed, Failed, Expired, TimedOut. *)
ExactlyOneOutcome ==
  (IsSome(signature) /\ pc \in {"returned", "exit"})
    => Cardinality(ConfirmationOutcomes) = 1

(* C6: the polling loop is left after at most 60 signature-status queries,
   whatever the endpoint answers. *)
PollingTerminates ==
  /\ [](calls["get_signature_status"] <= max_attempts)
  /\ (pc = "poll_height") ~> (pc \in {"returned", "fetch"})

(* C6 witness: the status endpoint answered None sixty times *)
SixtyQueries ==
  /\ calls["get_signature_status"] = max_attempts
  /\ err = "TimedOut"

(* C7: send_transaction is issued at most once, and after a failed broadcast
   there is no status poll, no height poll, no metadata fetch, and the result is
   a failure. *)
BroadcastAtMostOnce ==
  /\ calls["send_transaction"] <= 1
  /\ err = "BroadcastFailed"
       => (/\ pc \in {"returned", "exit"}
           /\ signature = None
           /\ calls["get_signature_status"] = 0
           /\ calls["get_transaction"] = 0
           /\ calls["get_block_height"] = 1
           /\ calls["sleep"] = 0
           /\ IsSome(result) => ~Unwrap(result).success)

(* C7 witness: the command ended on a failed broadcast *)
EndedBroadcastFailed ==
  /\ pc = "exit"
  /\ err = "BroadcastFailed"
  /\ calls["send_transaction"] = 1

----------------------------------------------------------------------------
(* Properties of the pipeline *)

(* the stages in the order of execute_swap; the three positions of the polling
   loop are one stage, the three mode branches are one stage *)
StageRank(p) ==
  CASE p = "load_wallet" -> 1
    [] p = "route" -> 2
    [] p = "swap_tx" -> 3
    [] p = "prepare" -> 4
    [] p = "budget" -> 5
    [] p = "dispatch" -> 6
    [] p \in {"get_height", "jito", "bloxroute"} -> 7
    [] p = "send" -> 8
    [] p \in {"poll_height", "poll_status", "sleep"} -> 9
    [] p = "fetch" -> 10
    [] p = "extract" -> 11
    [] p = "returned" -> 12
    [] OTHER -> 13

(* C8: the stages run in the order wallet, route, swap transaction, decode and
   sign, injection, broadcast, polling, extraction; get_quote,
   get_swap_transaction and send_transaction are each issued at most once; the
   first failing stage ends the pipeline: nothing runs after it and nothing is
   run again. *)
PipelineOrder ==
  [][/\ \/ StageRank(pc') = StageRank(pc) + 1
        \/ pc' \in {"returned", "panicked"}
        \/ StageRank(pc') = 9 /\ StageRank(pc) = 9
     /\ StageRank(pc') > StageRank(pc) \/ StageRank(pc) = 9
     /\ (err = "none" /\ err' # "none") => pc' = "returned"
     /\ err # "none" => (pc' = "exit" /\ err' = err /\ calls' = calls)
     /\ calls'["get_quote"] <= 1
     /\ calls'["get_swap_transaction"] <= 1
     /\ calls'["send_transaction"] <= 1]_vars

(* C8 witness: a whole pipeline ran, with a quote and with injected directives *)
WholePipelineRan ==
  /\ pc = "exit"
  /\ Unwrap(result).success
  /\ WantsBudget(self)
  /\ calls["get_quote"] = 1
  /\ calls["sleep"] > 0

----------------------------------------------------------------------------
(* Properties of the compute-budget injection *)

(* min(200000 + 50000 * n, 1400000), in unbounded arithmetic *)
ExpectedLimit(n) ==
  IF n >= (MaxComputeUnits - BaseLimit) \div PerInstruction
  THEN MaxComputeUnits
  ELSE BaseLimit + PerInstruction * n

(* C9: for every instruction count n the derived limit is
   min(200000 + 50000 * n, 1400000), and the 32-bit arithmetic never wraps. *)
DerivedLimitIsCappedSum ==
  /\ pc # "limit_panicked"
  /\ pc = "limit_done" => compute_limit = ExpectedLimit(instruction_count)

(* C10: add_compute_budget_instructions leaves the instruction sequence
   [limit, price] followed by the original instructions in their order. *)
InjectedOrder ==
  [][(pc = "budget" /\ WantsBudget(self))
     => LET original == transaction.instructions
            rebuilt == transaction'.instructions
        IN  /\ Len(rebuilt) = Len(original) + 2
            /\ rebuilt[1].kind = "limit"
            /\ rebuilt[2].kind = "price"
            /\ \A i \in 1 .. Len(original) : rebuilt[i + 2] = original[i]
            /\ original = decoded.instructions]_vars

(* C10 witness: directives were injected before two original instructions *)
InjectedBeforeTwo ==
  /\ pc = "dispatch"
  /\ WantsBudget(self)
  /\ Len(decoded.instructions) >= 2
  /\ Len(transaction.instructions) = Len(decoded.instructions) + 2

----------------------------------------------------------------------------
(* extract_received_amount as a function of the confirmed transaction alone:
   execute_simple_swap from the point where get_transaction_with_config has
   answered, for every shape of the metadata *)
ExtractCommand ==
  [mode |-> "simple", idempotency_key |-> None, route_info |-> None,
   priority_fee |-> None, compute_unit_limit |-> None]

BalanceRecords == {Balance(m, a) : m \in {OutputMint, "other"}, a \in {"5", "7"}}

BalanceLists == UNION {[1 .. k -> BalanceRecords] : k \in 0 .. MaxBalances}

Metas == {None, Some(None)} \cup {Some(Some(b)) : b \in BalanceLists}

ExtractPayload == [valid |-> TRUE, n |-> 1, payer |-> WalletPubkey]

InitExtract ==
  /\ self = ExtractCommand
  /\ pc = "extract"
  /\ route = Some(Quote)
  /\ swap_response = Some(ExtractPayload)
  /\ decoded = Decode(ExtractPayload)
  /\ transaction = Sign(Decode(ExtractPayload))
  /\ instruction_count = 0
  /\ compute_limit = 0
  /\ current_block_height = 0
  /\ last_valid_block_height = ExpiryWindow
  /\ signature = Some("sig")
  /\ attempts = 1
  /\ current_height = 0
  /\ status = Some("Ok")
  /\ \E m \in Metas : confirmed_tx = Some([slot |-> 100, meta |-> m])
  /\ received_amount = None
  /\ err = "none"
  /\ result = None
  /\ calls = [c \in CallNames |->
               IF c \in {"get_quote", "get_swap_transaction", "send_transaction",
                          "get_signature_status", "get_transaction"} THEN 1
               ELSE IF c = "get_block_height" THEN 2
               ELSE 0]
  /\ simulation_result = None
  /\ compute_units_used = 0
  /\ expected_out = None
  /\ ping_slot = None
  /\ stdout = <<>>
  /\ exit_code = None
  /\ FirstRun

NextExtract == ExtractAmount \/ Execute

SpecExtract == InitExtract /\ [][NextExtract]_vars

----------------------------------------------------------------------------
(* The simulate command *)
SimRouteInfos ==
  {None, Some("route_json"), Some("route_without_out"), Some("route_number_out"),
   Some("not_json")}

SimulateCommand == [command : {"simulate"}, route_info : SimRouteInfos]

(* simulate_swap reads account_keys[0] of whatever deserializes, also of a
   transaction whose message has no account at all *)
SimPayloads == Payloads \cup {[valid |-> TRUE, n |-> 0, payer |-> "no_account"]}

HasAccountKeys(tx) == tx.payer # "no_account"

(* a log line of the simulation: whether it contains "consumed", whether it
   contains "compute units", and its whitespace-separated tokens that parse as u32 *)
LogLine(consumed, compute_units, numbers) ==
  [consumed |-> consumed, compute_units |-> compute_units, numbers |-> numbers]

LogLines ==
  {LogLine(TRUE, TRUE, <<1200, 400000>>), LogLine(TRUE, TRUE, <<3400, 400000>>),
   LogLine(TRUE, TRUE, <<>>), LogLine(TRUE, FALSE, <<9>>)}

SimLogs == UNION {[1 .. k -> LogLines] : k \in 0 .. MaxLogs}

(* simulation_result.value: None, or a result with an error, or a result with
   or without logs *)
SimulationValues ==
  {None, Some([err |-> Some("InstructionError"), logs |-> None])}
    \cup {Some([err |-> None, logs |-> l]) : l \in {None} \cup {Some(x) : x \in SimLogs}}

(* instructions.insert(index, element) *)
Insert(seq, index, element) ==
  SubSeq(seq, 1, index) \o <<element>> \o SubSeq(seq, index + 1, Len(seq))

(* insert(0, compute_limit_ix); insert(1, priority_fee_ix) *)
SimulationInstructions(original) ==
  Insert(Insert(original, 0, LimitIx(SimulationLimit)), 1, PriceIx(SimulationPrice))

(* Message::new(&instructions, Some(&account_keys[0])) leaves the blockhash at
   its default; Transaction::new_unsigned signs nothing *)
SimulationTransaction(tx) ==
  [instructions |-> SimulationInstructions(tx.instructions),
   payer |-> tx.payer,
   recent_blockhash |-> "default_blockhash",
   signed_over |-> NoMessage]

(* the loop over sim_logs: the last line that mentions both words and has a
   token parsing as u32 sets compute_units_used to its first such token *)
RECURSIVE ComputeUnitsOf(_, _)
ComputeUnitsOf(logs, units) ==
  IF logs = <<>> THEN units
  ELSE LET log == Head(logs)
       IN  ComputeUnitsOf(Tail(logs),
                          IF log.consumed /\ log.compute_units /\ log.numbers # <<>>
                          THEN Head(log.numbers)
                          ELSE units)

(* route_info.get("outAmount") and out_amount.as_str().unwrap_or("0") *)
ExpectedOutOf(route_info) ==
  IF IsSome(route_info.outAmount)
  THEN IF Unwrap(route_info.outAmount).kind = "string"
       THEN Unwrap(route_info.outAmount).text
       ELSE "0"
  ELSE "0"

(* the two ExecutorResults of SimulateCommand::execute; of the logs, the lines
   the command formats itself *)
SimulateSuccessResult(out, units) ==
  [success |-> TRUE, signature |-> None, received_amount |-> None, slot |-> None,
   error |-> None,
   logs |-> Some(<<Format("Expected output: ", out),
                   Format("Compute units used: ", ToString(units))>>),
   expected_out |-> Some(out), compute_units_used |-> Some(units),
   idempotency_key |-> None]

SimulateFailureResult(e) ==
  [success |-> FALSE, signature |-> None, received_amount |-> None, slot |-> None,
   error |-> Some(Format("Simulation failed: ", e)),
   logs |-> Some(<<Format("Error: ", e)>>),
   expected_out |-> None, compute_units_used |-> None, idempotency_key |-> None]

swapVars == <<instruction_count, compute_limit, pollVars, confirmed_tx, received_amount>>
mainVars == <<ping_slot, stdout, exit_code, runVars>>

SimFail(kind) == pc' = "sim_returned" /\ err' = kind

InitSimulate ==
  /\ self \in SimulateCommand
  /\ pc = "sim_route"
  /\ instruction_count = 0
  /\ Defaults
  /\ FirstRun

(* serde_json::from_str(info)? when a route is supplied *)
SimParseRoute ==
  /\ pc = "sim_route"
  /\ IsSome(self.route_info)
  /\ IF IsSome(FromStr(Unwrap(self.route_info)))
     THEN route' = FromStr(Unwrap(self.route_info)) /\ pc' = "sim_swap_tx" /\ err' = err
     ELSE route' = route /\ SimFail("RouteParse")
  /\ UNCHANGED <<self, swapVars, mainVars, swap_response, decoded, transaction,
                 simulation_result, compute_units_used, expected_out, result, calls>>

(* jupiter.get_quote(..).await? when no route is supplied *)
SimGetQuote ==
  /\ pc = "sim_route"
  /\ FetchesQuote(self)
  /\ Called("get_quote")
  /\ \/ \E q \in Quotes : route' = Some(q) /\ pc' = "sim_swap_tx" /\ err' = err
     \/ route' = route /\ SimFail("RouteUnavailable")
  /\ UNCHANGED <<self, swapVars, mainVars, swap_response, decoded, transaction,
                 simulation_result, compute_units_used, expected_out, result>>

(* jupiter.get_swap_transaction(&route_info).await? *)
SimGetSwapTransaction ==
  /\ pc = "sim_swap_tx"
  /\ Called("get_swap_transaction")
  /\ \/ \E p \in SimPayloads :
          swap_response' = Some(p) /\ pc' = "sim_decode" /\ err' = err
     \/ swap_response' = swap_response /\ SimFail("SwapBuildFailed")
  /\ UNCHANGED <<self, swapVars, mainVars, route, decoded, transaction,
                 simulation_result, compute_units_used, expected_out, result>>

(* base64 decode and bincode::deserialize, both with ? *)
SimDecode ==
  /\ pc = "sim_decode"
  /\ LET p == Unwrap(swap_response)
     IN  IF p.valid
         THEN decoded' = Decode(p) /\ pc' = "sim_build" /\ err' = err
         ELSE decoded' = decoded /\ SimFail("MalformedTransaction")
  /\ UNCHANGED <<self, swapVars, mainVars, route, swap_response, transaction,
                 simulation_result, compute_units_used, expected_out, result, calls>>

(* the two inserts, Message::new and Transaction::new_unsigned; indexing
   account_keys[0] of a message without accounts panics *)
SimBuild ==
  /\ pc = "sim_build"
  /\ IF HasAccountKeys(decoded)
     THEN transaction' = SimulationTransaction(decoded) /\ pc' = "sim_simulate"
     ELSE transaction' = transaction /\ pc' = "panicked"
  /\ UNCHANGED <<self, swapVars, mainVars, route, swap_response, decoded,
                 simulation_result, compute_units_used, expected_out, result, err,
                 calls>>

(* client.simulate_transaction_with_config(&simulation_tx, ..)? *)
SimSimulate ==
  /\ pc = "sim_simulate"
  /\ Called("simulate_transaction")
  /\ \/ \E v \in SimulationValues :
          simulation_result' = Some(v) /\ pc' = "sim_read" /\ err' = err
     \/ simulation_result' = simulation_result /\ SimFail("RpcUnavailable")
  /\ UNCHANGED <<self, swapVars, mainVars, route, swap_response, decoded, transaction,
                 compute_units_used, expected_out, result>>

(* reading simulation_result.value and the route: Err on a simulation error,
   else Ok((expected_out, compute_units_used, logs)) *)
SimRead ==
  /\ pc = "sim_read"
  /\ LET value == Unwrap(simulation_result)
     IN  IF IsSome(value) /\ IsSome(Unwrap(value).err)
         THEN /\ SimFail("SimulationError")
              /\ UNCHANGED <<compute_units_used, expected_out>>
         ELSE /\ compute_units_used' =
                   IF IsSome(value) /\ IsSome(Unwrap(value).logs)
                   THEN ComputeUnitsOf(Unwrap(Unwrap(value).logs), 0)
                   ELSE 0
              /\ expected_out' = Some(ExpectedOutOf(Unwrap(route)))
              /\ pc' = "sim_returned"
              /\ err' = err
  /\ UNCHANGED <<self, swapVars, mainVars, route, swap_response, decoded, transaction,
                 simulation_result, result, calls>>

(* SimulateCommand::execute: match self.simulate_swap(&client).await *)
SimExecute ==
  /\ pc = "sim_returned"
  /\ result' = Some(IF err = "none"
                    THEN SimulateSuccessResult(Unwrap(expected_out), compute_units_used)
                    ELSE SimulateFailureResult(err))
  /\ pc' = "exit"
  /\ UNCHANGED <<self, swapVars, mainVars, route, swap_response, decoded, transaction,
                 simulation_result, compute_units_used, expected_out, err, calls>>

NextSimulate ==
  \/ SimParseRoute
  \/ SimGetQuote
  \/ SimGetSwapTransaction
  \/ SimDecode
  \/ SimBuild
  \/ SimSimulate
  \/ SimRead
  \/ SimExecute

SpecSimulate == InitSimulate /\ [][NextSimulate]_vars

----------------------------------------------------------------------------
(* The ping command *)
PingCommand == [command : {"ping"}, rpc_url : {"http://rpc"}]

Slots == 1 .. MaxSlot

(* what a failing RPC request reports: the client error's text, which is the
   same for every method *)
RpcErrors == {"connection refused", "request timed out"}

(* start_time.elapsed(), formatted with {:?} *)
Durations == {"12ms", "3s"}

(* the order of the requests in ping_rpc *)
PingChecks ==
  <<"get_slot", "get_block_height", "get_epoch_info", "get_latest_blockhash",
    "get_account">>

(* mutation of AfterCheck: a failed check is skipped *)
AfterCheckSkipsFailure(i, ok) ==
  IF i < Len(PingChecks) THEN PingChecks[i + 1] ELSE "ping_returned"

(* the ? after each request: the next request, or the return of ping_rpc *)
AfterCheck(i, ok) ==
  IF ok /\ i < Len(PingChecks) THEN PingChecks[i + 1] ELSE "ping_returned"

(* the two ExecutorResults of PingCommand::execute *)
PingSuccessResult(cmd, slot, duration) ==
  [success |-> TRUE, signature |-> None, received_amount |-> None,
   slot |-> Some(slot), error |-> None,
   logs |-> Some(<<Format("RPC endpoint: ", cmd.rpc_url),
                   Format("Current slot: ", ToString(slot)),
                   Format("Response time: ", duration)>>),
   expected_out |-> None, compute_units_used |-> None, idempotency_key |-> None]

PingFailureResult(cmd, e) ==
  [success |-> FALSE, signature |-> None, received_amount |-> None, slot |-> None,
   error |-> Some(Format("Ping failed: ", e)),
   logs |-> Some(<<Format("RPC endpoint: ", cmd.rpc_url), Format("Error: ", e)>>),
   expected_out |-> None, compute_units_used |-> None, idempotency_key |-> None]

simVars == <<simulation_result, compute_units_used, expected_out>>

InitPing ==
  /\ self \in PingCommand
  /\ pc = PingChecks[1]
  /\ instruction_count = 0
  /\ Defaults
  /\ FirstRun

(* request number i of ping_rpc, with its ? *)
PingRequest(i) ==
  /\ pc = PingChecks[i]
  /\ Called(PingChecks[i])
  /\ \/ /\ pc' = AfterCheck(i, TRUE)
        /\ err' = err
     \/ \E e \in RpcErrors :
          /\ pc' = AfterCheck(i, FALSE)
          /\ err' = e
  /\ UNCHANGED <<self, txVars, swapVars, simVars, runVars, stdout, exit_code, result>>

(* let slot = client.get_slot()? *)
PingGetSlot ==
  /\ PingRequest(1)
  /\ \E s \in Slots : ping_slot' = IF err' = "none" THEN Some(s) ELSE ping_slot

(* let _block_height = client.get_block_height()? *)
PingGetBlockHeight == PingRequest(2) /\ UNCHANGED ping_slot

(* let _epoch_info = client.get_epoch_info()? *)
PingGetEpochInfo == PingRequest(3) /\ UNCHANGED ping_slot

(* let recent_blockhash = client.get_latest_blockhash()? *)
PingGetLatestBlockhash == PingRequest(4) /\ UNCHANGED ping_slot

(* let _account = client.get_account(&system_program)?; Ok(slot) *)
PingGetAccount == PingRequest(5) /\ UNCHANGED ping_slot

(* PingCommand::execute: match self.ping_rpc(&client).await *)
PingExecute ==
  /\ pc = "ping_returned"
  /\ \E d \in Durations :
       result' = Some(IF err = "none"
                      THEN PingSuccessResult(self, Unwrap(ping_slot), d)
                      ELSE PingFailureResult(self, err))
  /\ pc' = "exit"
  /\ UNCHANGED <<self, txVars, swapVars, simVars, runVars, ping_slot, stdout,
                 exit_code, err, calls>>

NextPing ==
  \/ PingGetSlot
  \/ PingGetBlockHeight
  \/ PingGetEpochInfo
  \/ PingGetLatestBlockhash
  \/ PingGetAccount
  \/ PingExecute

----------------------------------------------------------------------------
(* main: print the result, exit with 1 unless it is a success *)
Main ==
  /\ pc = "exit"
  /\ stdout' = Append(stdout, Unwrap(result))
  /\ exit_code' = Some(IF Unwrap(result).success THEN 0 ELSE 1)
  /\ pc' = "exited"
  /\ UNCHANGED <<self, txVars, swapVars, simVars, runVars, ping_slot, result, err,
                 calls>>

(* a panic unwinds out of main: nothing is printed, the exit code is 101 *)
Abort ==
  /\ pc = "panicked"
  /\ exit_code' = Some(101)
  /\ pc' = "aborted"
  /\ UNCHANGED <<self, txVars, swapVars, simVars, runVars, ping_slot, stdout, result,
                 err, calls>>

SpecPing == InitPing /\ [][NextPing \/ Main]_vars

----------------------------------------------------------------------------
(* The same swap command line run twice.  The executable keeps nothing between
   two runs: SwapCommand::new builds the command from the arguments alone, and
   no stage writes a file or any other store. *)
TwiceCommand ==
  [mode : {"simple"}, idempotency_key : IdempotencyKeys, route_info : {None},
   priority_fee : {None}, compute_unit_limit : {None}]

InitTwice == Init /\ self \in TwiceCommand

(* the process has ended and the same command line is started again *)
Restart ==
  /\ pc = "exited"
  /\ invocation = 1
  /\ invocation' = 2
  /\ earlier_broadcasts' = earlier_broadcasts + calls["send_transaction"]
  /\ self' = self
  /\ pc' = "load_wallet"
  /\ instruction_count' = 0
  /\ route' = None
  /\ swap_response' = None
  /\ decoded' = NoTx
  /\ transaction' = NoTx
  /\ compute_limit' = 0
  /\ current_block_height' = 0
  /\ last_valid_block_height' = 0
  /\ signature' = None
  /\ attempts' = 0
  /\ current_height' = 0
  /\ status' = None
  /\ confirmed_tx' = None
  /\ received_amount' = None
  /\ err' = "none"
  /\ result' = None
  /\ calls' = [c \in CallNames |-> 0]
  /\ simulation_result' = None
  /\ compute_units_used' = 0
  /\ expected_out' = None
  /\ ping_slot' = None
  /\ stdout' = <<>>
  /\ exit_code' = None
  /\ UNCHANGED utilVars

NextTwice ==
  \/ LoadWallet
  \/ GetQuote
  \/ GetSwapTransaction
  \/ PrepareTransaction
  \/ ComputeBudget
  \/ Dispatch
  \/ GetBlockHeight
  \/ SendTransaction
  \/ PollHeight
  \/ PollStatus
  \/ Sleep
  \/ GetTransaction
  \/ ExtractAmount
  \/ Execute
  \/ Main
  \/ Restart

SpecTwice == InitTwice /\ [][NextTwice]_vars

(* the three commands of the executable *)
InitCommands == Init \/ InitSimulate \/ InitPing

NextCommands == Next \/ NextSimulate \/ NextPing \/ Main \/ Abort

SpecCommands == InitCommands /\ [][NextCommands]_vars

----------------------------------------------------------------------------
(* load_wallet as a function of the wallet file, followed by the swap pipeline *)

(* a wallet file: the length of the Vec<u8> its bytes parse to as JSON (None when
   serde_json::from_slice::<Vec<u8>> fails), the number of its bytes, and whether
   Keypair::from_bytes accepts the 64 bytes it is handed *)
WalletFile(array, len, keypair) == [array |-> array, len |-> len, keypair |-> keypair]

WalletLengths ==
  (0 .. WalletSlack) \cup ((KeyLength - WalletSlack) .. (KeyLength + WalletSlack))

(* the text of a JSON array of k numbers has at least 2k + 1 bytes; a short array
   can be a text of exactly 64 bytes *)
JsonWalletFiles ==
  UNION {{WalletFile(Some(k), len, keypair) :
            len \in {r \in {2 * k + 1, 4 * k + 1, KeyLength} : r >= 2 * k + 1},
            keypair \in BOOLEAN} : k \in WalletLengths}

RawWalletFiles ==
  {WalletFile(None, len, keypair) : len \in WalletLengths, keypair \in BOOLEAN}

(* None: fs::read fails *)
WalletFileContents ==
  {None} \cup {Some(f) : f \in JsonWalletFiles \cup RawWalletFiles}

(* mutation of LoadWalletOf: the length of the JSON array is not checked *)
LoadWalletOfAnyArray(data) ==
  IF ~IsSome(data) THEN "WalletUnreadable"
  ELSE LET file == Unwrap(data)
       IN  IF IsSome(file.array)
           THEN IF file.keypair THEN "Ok" ELSE "KeypairRejected"
           ELSE IF file.len = KeyLength
           THEN IF file.keypair THEN "Ok" ELSE "KeypairRejected"
           ELSE "InvalidWalletFormat"

(* load_wallet: fs::read(..)?, the JSON branch, the raw branch, the final Err *)
LoadWalletOf(data) ==
  IF ~IsSome(data) THEN "WalletUnreadable"
  ELSE LET file == Unwrap(data)
       IN  IF IsSome(file.array) /\ Unwrap(file.array) = KeyLength
           THEN IF file.keypair THEN "Ok" ELSE "KeypairRejected"
           ELSE IF file.len = KeyLength
           THEN IF file.keypair THEN "Ok" ELSE "KeypairRejected"
           ELSE "InvalidWalletFormat"

WalletErrors == {"WalletUnreadable", "KeypairRejected", "InvalidWalletFormat"}

InitWallet ==
  /\ self = ExtractCommand
  /\ pc = "load_wallet"
  /\ instruction_count = 0
  /\ Defaults
  /\ invocation = 1
  /\ earlier_broadcasts = 0
  /\ wallet_data \in WalletFileContents
  /\ amount_str = <<>>
  /\ lamports = None

(* utils::load_wallet(&self.wallet)?, on the file as it is *)
LoadWalletFile ==
  /\ pc = "load_wallet"
  /\ IF LoadWalletOf(wallet_data) = "Ok"
     THEN pc' = "route" /\ err' = err
     ELSE Fail("load_wallet", LoadWalletOf(wallet_data))
  /\ UNCHANGED <<self, cmdVars, txVars, pollVars, endVars, calls>>

NextWallet ==
  \/ LoadWalletFile
  \/ GetQuote
  \/ GetSwapTransaction
  \/ PrepareTransaction
  \/ ComputeBudget
  \/ Dispatch
  \/ GetBlockHeight
  \/ SendTransaction
  \/ PollHeight
  \/ PollStatus
  \/ Sleep
  \/ GetTransaction
  \/ ExtractAmount
  \/ Execute
  \/ Main

SpecWallet == InitWallet /\ [][NextWallet]_vars

----------------------------------------------------------------------------
(* Unsigned integers of any size, as sequences of limbs, least significant
   first, without leading zero limbs *)
Radix == 2 ^ 15

RECURSIVE BigMulCarry(_, _, _)
BigMulCarry(a, k, carry) ==
  IF a = <<>> THEN IF carry = 0 THEN <<>> ELSE <<carry>>
  ELSE LET t == Head(a) * k + carry
       IN  <<t % Radix>> \o BigMulCarry(Tail(a), k, t \div Radix)

(* a * k and a + d, for k and d below the radix *)
BigMulSmall(a, k) == IF k = 0 THEN <<>> ELSE BigMulCarry(a, k, 0)
BigAddSmall(a, d) == BigMulCarry(a, 1, d)

RECURSIVE BigNorm(_)
BigNorm(a) ==
  IF a = <<>> THEN <<>>
  ELSE IF a[Len(a)] = 0 THEN BigNorm(SubSeq(a, 1, Len(a) - 1))
  ELSE a

RECURSIVE BigDivRem(_, _)
BigDivRem(a, d) ==
  IF a = <<>> THEN [q |-> <<>>, r |-> 0]
  ELSE LET hi == BigDivRem(Tail(a), d)
           t == hi.r * Radix + Head(a)
       IN  [q |-> <<t \div d>> \o hi.q, r |-> t % d]

(* a div d and a mod d, for d up to the radix *)
BigDivSmall(a, d) == BigNorm(BigDivRem(a, d).q)
BigModSmall(a, d) == BigDivRem(a, d).r

RECURSIVE BigOfInt(_)
BigOfInt(n) == IF n = 0 THEN <<>> ELSE <<n % Radix>> \o BigOfInt(n \div Radix)

RECURSIVE SmallBits(_)
SmallBits(n) == IF n = 0 THEN 0 ELSE 1 + SmallBits(n \div 2)

(* the number of bits of a *)
BigBits(a) ==
  IF a = <<>> THEN 0
  ELSE (SmallBits(Radix) - 1) * (Len(a) - 1) + SmallBits(a[Len(a)])

RECURSIVE BigShiftLeft(_, _)
BigShiftLeft(a, n) ==
  IF n = 0 THEN a
  ELSE IF n >= 14 THEN BigShiftLeft(BigMulSmall(a, 2 ^ 14), n - 14)
  ELSE BigMulSmall(a, 2 ^ n)

RECURSIVE BigShiftRight(_, _)
BigShiftRight(a, n) ==
  IF n = 0 THEN a
  ELSE IF n >= 14 THEN BigShiftRight(BigDivSmall(a, 2 ^ 14), n - 14)
  ELSE BigDivSmall(a, 2 ^ n)

BigIsOdd(a) == a # <<>> /\ Head(a) % 2 = 1

(* a * 10^k *)
RECURSIVE BigTimesTens(_, _)
BigTimesTens(a, k) == IF k = 0 THEN a ELSE BigTimesTens(BigMulSmall(a, 10), k - 1)

(* u64::MAX *)
U64Max == [i \in 1 .. 5 |-> IF i < 5 THEN Radix - 1 ELSE 15]

----------------------------------------------------------------------------
(* f64: the value m * 2^e with a mantissa m of 53 bits, or zero; the amounts
   here are far from the subnormal and the infinite range *)
F64(m, e) == [m |-> m, e |-> e]
F64Zero == F64(<<>>, 0)

(* a / 2^n rounded to the nearest integer, ties to even; sticky says that the
   value had further non-zero bits below a *)
RoundToEven(a, n, sticky) ==
  LET q1 == BigShiftRight(a, n - 1)
      q == BigShiftRight(q1, 1)
      low == sticky \/ BigShiftLeft(q1, n - 1) # a
  IN  IF BigIsOdd(q1) /\ (low \/ BigIsOdd(q)) THEN BigAddSmall(q, 1) ELSE q

(* the f64 nearest to (a + a fraction that is non-zero iff sticky) * 2^e; with
   sticky, a has more bits than a mantissa *)
F64Round(a, e, sticky) ==
  IF a = <<>> THEN F64Zero
  ELSE LET bits == BigBits(a)
       IN  IF bits <= MantissaBits
           THEN F64(BigShiftLeft(a, MantissaBits - bits), e - (MantissaBits - bits))
           ELSE LET r == RoundToEven(a, bits - MantissaBits, sticky)
                IN  IF BigBits(r) > MantissaBits
                    THEN F64(BigShiftRight(r, 1), e + (bits - MantissaBits) + 1)
                    ELSE F64(r, e + (bits - MantissaBits))

(* a div 10^k, and whether the division left a remainder *)
RECURSIVE DivTens(_, _, _)
DivTens(a, k, sticky) ==
  IF k = 0 THEN [q |-> a, sticky |-> sticky]
  ELSE DivTens(BigDivSmall(a, 10), k - 1, sticky \/ BigModSmall(a, 10) # 0)

(* the f64 nearest to n * 2^e / 10^k: the quotient is taken with enough extra
   bits for the rounding to see everything below the mantissa *)
F64OfRatio(n, k, e) ==
  LET guard == MantissaBits + 3 + 4 * k
      d == DivTens(BigShiftLeft(n, guard), k, FALSE)
  IN  F64Round(d.q, e - guard, d.sticky)

(* lamports as f64 *)
F64OfU64(n) == F64Round(n, 0, FALSE)

(* value as u64: the fraction is dropped, values above u64::MAX saturate *)
F64AsU64(x) ==
  IF x.m = <<>> THEN <<>>
  ELSE IF x.e >= 0
  THEN IF BigBits(x.m) + x.e > 64 THEN U64Max ELSE BigShiftLeft(x.m, x.e)
  ELSE IF -x.e >= BigBits(x.m) THEN <<>>
  ELSE BigShiftRight(x.m, -x.e)

(* x * 1_000_000_000.0: the exact product, rounded once *)
F64TimesLamportsPerSol(x) ==
  F64Round(BigMulSmall(BigMulSmall(BigMulSmall(x.m, 1000), 1000), 1000), x.e, FALSE)

(* strings are sequences of characters *)
Digits == <<"0", "1", "2", "3", "4", "5", "6", "7", "8", "9">>

IsDigit(c) == \E d \in 1 .. Len(Digits) : Digits[d] = c
DigitOf(c) == (CHOOSE d \in 1 .. Len(Digits) : Digits[d] = c) - 1

CountOf(str, c) == Cardinality({i \in 1 .. Len(str) : str[i] = c})

(* the number the digits of str denote, other characters skipped *)
RECURSIVE DigitsValue(_, _)
DigitsValue(str, acc) ==
  IF str = <<>> THEN acc
  ELSE DigitsValue(Tail(str),
                   IF IsDigit(Head(str))
                   THEN BigAddSmall(BigMulSmall(acc, 10), DigitOf(Head(str)))
                   ELSE acc)

(* the digits after the decimal point *)
FractionDigits(str) ==
  Len(str) - (CHOOSE i \in 1 .. Len(str) : str[i] = ".")

(* str.parse::<f64>() of a string of digits and points: digits with one point
   and at least one digit, correctly rounded *)
ParseF64(str) ==
  IF /\ \A i \in 1 .. Len(str) : IsDigit(str[i]) \/ str[i] = "."
     /\ CountOf(str, ".") = 1
     /\ Len(str) > 1
  THEN Some(F64OfRatio(DigitsValue(str, <<>>), FractionDigits(str), 0))
  ELSE None

(* str.parse::<u64>() of such a string: digits only, at least one, up to u64::MAX *)
ParseU64(str) ==
  IF /\ str # <<>>
     /\ \A i \in 1 .. Len(str) : IsDigit(str[i])
     /\ BigBits(DigitsValue(str, <<>>)) <= 64
  THEN Some(DigitsValue(str, <<>>))
  ELSE None

(* lamports as f64 / 1_000_000_000.0 *)
lamports_to_sol(amount) ==
  LET x == F64OfU64(amount)
  IN  F64OfRatio(x.m, 9, x.e)

(* (sol * 1_000_000_000.0) as u64 *)
sol_to_lamports(sol) == F64AsU64(F64TimesLamportsPerSol(sol))

(* parse_amount *)
parse_amount(str) ==
  IF CountOf(str, ".") > 0
  THEN LET sol_amount == ParseF64(str)
       IN  IF IsSome(sol_amount) THEN Some(sol_to_lamports(Unwrap(sol_amount))) ELSE None
  ELSE ParseU64(str)

(* the characters amounts are written with here: digits, the point, and one
   character that is neither *)
AmountChars == {"0", "1", "4", "5", ".", "x"}

(* the amount of utils.rs:96, written out *)
TestAmount == <<"1", "0", "0", "0", "0", "0", "0", "0", "0", "0">>

AmountStrings ==
  {TestAmount} \cup UNION {[1 .. n -> AmountChars] : n \in 0 .. MaxAmountLen}

InitAmount ==
  /\ self = ExtractCommand
  /\ pc = "parse_amount"
  /\ instruction_count = 0
  /\ Defaults
  /\ invocation = 1
  /\ earlier_broadcasts = 0
  /\ wallet_data = None
  /\ amount_str \in AmountStrings
  /\ lamports = None

(* utils::parse_amount(amount_str): Ok(lamports) or the parse error *)
ParseAmount ==
  /\ pc = "parse_amount"
  /\ lamports' = parse_amount(amount_str)
  /\ pc' = IF IsSome(parse_amount(amount_str)) THEN "parsed" ELSE "parse_error"
  /\ UNCHANGED <<self, err, txVars, pollVars, endVars, calls, simulation_result,
                 compute_units_used, expected_out, ping_slot, stdout, exit_code,
                 invocation, earlier_broadcasts, wallet_data, amount_str>>

NextAmount == ParseAmount

SpecAmount == InitAmount /\ [][NextAmount]_vars

----------------------------------------------------------------------------
(* C22: parse_amount maps a string without a decimal point to exactly the
   unsigned integer it denotes, and a string with a decimal point to the decimal
   value it denotes multiplied by 1,000,000,000, as an integer number of base
   units; sol_to_lamports(1.0) is 1000000000 and lamports_to_sol(1000000000) is
   1.0. *)
ParsesToDenotedAmount ==
  /\ sol_to_lamports(F64OfU64(BigOfInt(1))) = BigOfInt(LamportsPerSol)
  /\ lamports_to_sol(BigOfInt(LamportsPerSol)) = F64OfU64(BigOfInt(1))
  /\ pc \in {"parsed", "parse_error"} =>
       /\ IsSome(ParseU64(amount_str)) =>
            lamports = Some(DigitsValue(amount_str, <<>>))
       /\ IsSome(ParseF64(amount_str)) =>
            lamports = Some(BigTimesTens(DigitsValue(amount_str, <<>>),
                                         9 - FractionDigits(amount_str)))

----------------------------------------------------------------------------
(* C23: in every iteration of the polling loop the signature status is queried
   before the block height is compared with the expiry bound, and the height is
   compared only when that status is None: when an iteration compares the
   height it has read, one status query per iteration so far has been made and
   the last one answered None. *)
StatusQueriedBeforeHeightCompared ==
  [][(pc = "poll_height" /\ current_height' # current_height)
     => (/\ calls["get_signature_status"] = attempts'
         /\ status = None)]_vars

----------------------------------------------------------------------------
(* C24: the attempt ends as TimedOut exactly when the signature status was None
   in each of 60 consecutive polls, none of which read a height above H0 + 150:
   TimedOut is never produced before the 60th status query, the attempt counter
   is between 1 and 60 at every status query, and one 1-second wait separates
   consecutive polls, so there are at most 59 waits and none after the final
   poll. *)
TimedOutAfterSixtyNones ==
  /\ [](err = "TimedOut"
          => (/\ calls["get_signature_status"] = max_attempts
              /\ attempts = max_attempts
              /\ status = None
              /\ calls["sleep"] = max_attempts - 1))
  /\ [](pc = "poll_status"
          => (/\ attempts \in 1 .. max_attempts
              /\ calls["get_signature_status"] = attempts - 1
              /\ calls["sleep"] = attempts - 1
              /\ current_height <= last_valid_block_height))
  /\ [](calls["sleep"] <= max_attempts - 1)
  /\ [][(pc = "poll_status" /\ attempts = max_attempts /\ status' = None
          /\ calls'["get_signature_status"] = max_attempts)
         => err' \in {"TimedOut", "RpcUnavailable"}]_vars
  /\ [][(pc = "poll_status" /\ pc' = "sleep")
         => (status' = None /\ attempts < max_attempts)]_vars
  /\ [][pc = "sleep" => (pc' = "poll_height" /\ calls'["sleep"] = attempts)]_vars

(* C24 witness: the 60th status query answered None after 59 waits, and the
   command returned the timeout *)
TimedOutAfterFiftyNineWaits ==
  /\ pc = "exit"
  /\ err = "TimedOut"
  /\ attempts = max_attempts
  /\ calls["sleep"] = max_attempts - 1
  /\ ~Unwrap(result).success

----------------------------------------------------------------------------
(* C25: the expiry bound is fixed once as H0 + 150, H0 being the block height
   read at broadcast time, and does not change during polling; the attempt ends
   as Expired only at a poll that read a height strictly greater than H0 + 150,
   so a poll that reads H0 + 150 or less never yields Expired. *)
ExpiryBoundFixedAndStrict ==
  /\ [](pc \in {"send", "poll_height", "poll_status", "sleep", "fetch", "extract"}
          => last_valid_block_height = current_block_height + ExpiryWindow)
  /\ [][(pc \in {"send", "poll_height", "poll_status", "sleep"})
         => (/\ last_valid_block_height' = last_valid_block_height
             /\ current_block_height' = current_block_height)]_vars
  /\ [][(err' = "Expired" /\ err # "Expired")
         => (/\ pc = "poll_height"
             /\ current_height' > current_block_height + ExpiryWindow)]_vars
  /\ [][(/\ pc = "poll_height"
          /\ current_height' # current_height
          /\ current_height' <= current_block_height + ExpiryWindow)
         => (pc' = "poll_status" /\ err' = err)]_vars

(* C25 witness: a poll after the first read exactly H0 + 150 and the loop went
   on to the status query *)
PolledExactlyAtBound ==
  /\ pc = "poll_status"
  /\ attempts > 1
  /\ current_block_height = MaxH0
  /\ current_height = current_block_height + ExpiryWindow

----------------------------------------------------------------------------
(* C26: when directives are injected, the limit directive carries exactly the
   explicit compute-unit limit if one is given, also above 1,400,000; the price
   directive carries the explicit priority fee if given and 1000 otherwise; and
   both directives are injected when only one of the two values is requested. *)
DirectivesCarryRequestedValues ==
  (pc \in {"dispatch", "get_height", "send"} /\ WantsBudget(self)) =>
    LET ix == transaction.instructions
    IN  /\ Len(ix) = Len(decoded.instructions) + 2
        /\ Cardinality({i \in 1 .. Len(ix) : ix[i].kind = "limit"}) = 1
        /\ Cardinality({i \in 1 .. Len(ix) : ix[i].kind = "price"}) = 1
        /\ ix[1].kind = "limit"
        /\ ix[2].kind = "price"
        /\ IsSome(self.compute_unit_limit)
             => ix[1].value = Unwrap(self.compute_unit_limit)
        /\ IsSome(self.priority_fee) => ix[2].value = Unwrap(self.priority_fee)
        /\ ~IsSome(self.priority_fee) => ix[2].value = DefaultPriorityFee

(* C26 witness: only a limit above the cap was requested, and the transaction
   about to be broadcast carries that limit and the default price *)
LimitAboveCapWithDefaultPrice ==
  /\ pc = "send"
  /\ IsSome(self.compute_unit_limit)
  /\ ~IsSome(self.priority_fee)
  /\ transaction.instructions[1].value > MaxComputeUnits
  /\ transaction.instructions[2] = PriceIx(DefaultPriorityFee)

----------------------------------------------------------------------------
(* C27: signing happens after instruction mutation and never before it: on a
   path where compute directives are injected, the transaction whose
   instruction sequence is about to be rewritten has not been signed, and no
   signing was attempted on it. *)
NotSignedBeforeInjection ==
  /\ (pc = "budget" /\ WantsBudget(self)) => transaction.signed_over = NoMessage
  /\ (pc = "panicked" /\ WantsBudget(self))
       => Len(transaction.instructions) > Len(decoded.instructions)

----------------------------------------------------------------------------
(* C28: every ExecutorResult of the swap command has success = true exactly when
   error is absent; with success = true, signature, received_amount and slot
   are all present; with success = false they are all absent, also when the
   failure (on-chain error, expiry, timeout) came after the transaction was
   broadcast and its signature was known. *)
ResultFieldsFollowSuccess ==
  IsSome(result) =>
    LET r == Unwrap(result)
    IN  /\ r.success <=> ~IsSome(r.error)
        /\ r.success
             => (IsSome(r.signature) /\ IsSome(r.received_amount) /\ IsSome(r.slot))
        /\ ~r.success
             => (/\ r.signature = None
                 /\ r.received_amount = None
                 /\ r.slot = None)
        /\ r.success <=> err = "none"

(* C28 witness: the broadcast returned a signature, the attempt expired, and the
   failure result carries no signature *)
ExpiredResultWithoutSignature ==
  /\ pc = "exit"
  /\ IsSome(signature)
  /\ err = "Expired"
  /\ ~Unwrap(result).success
  /\ Unwrap(result).signature = None

----------------------------------------------------------------------------
(* C29: with mode "jito" or "bloxroute" the swap command never broadcasts a
   transaction and always ends with a failure result saying that the mode is
   not implemented, although the route and the swap transaction were fetched
   and signed before; with mode "simple" or any other mode string it runs the
   simple broadcast-and-confirm path. *)
ModeDispatch ==
  /\ [](self.mode \in {"jito", "bloxroute"}
          => (/\ calls["send_transaction"] = 0
              /\ calls["get_block_height"] = 0
              /\ pc \notin {"get_height", "send", "poll_height", "poll_status",
                             "sleep", "fetch", "extract"}
              /\ IsSome(result) => ~Unwrap(result).success))
  /\ [][(pc = "dispatch")
         => (/\ transaction.signed_over = MessageOf(transaction)
             /\ IsSome(route)
             /\ IsSome(swap_response)
             /\ pc' = IF self.mode \in {"jito", "bloxroute"} THEN self.mode
                       ELSE "get_height")]_vars
  /\ [][(pc \in {"jito", "bloxroute"})
         => (/\ pc' = "returned"
             /\ err' = IF pc = "jito" THEN "JitoNotImplemented"
                        ELSE "BloxrouteNotImplemented"
             /\ calls' = calls)]_vars
  /\ [][pc = "get_height" => calls'["get_block_height"] = 1]_vars

(* C29 witness: an unrecognised mode string went down the simple path and the
   transaction was broadcast *)
UnknownModeBroadcast ==
  /\ self.mode \notin {"simple", "jito", "bloxroute"}
  /\ calls["send_transaction"] = 1
  /\ IsSome(signature)
  /\ pc = "exit"

----------------------------------------------------------------------------
(* C11: every transaction handed to send_transaction carries a wallet signature
   computed over its final message: whether or not directives were injected, the
   signature covers exactly the instructions, fee payer and blockhash that are
   broadcast, so no unsigned transaction and no transaction changed after its
   signing reaches send_transaction. *)
SignedOverFinalMessage ==
  pc = "send" =>
    /\ transaction.signed_over # NoMessage
    /\ transaction.signed_over = MessageOf(transaction)

(* a transaction with injected directives is about to be broadcast *)
InjectedAtSend ==
  /\ pc = "send"
  /\ WantsBudget(self)
  /\ Len(transaction.instructions) = Len(decoded.instructions) + 2
  /\ Len(decoded.instructions) > 0

(* C12: when neither a priority fee nor a compute-unit limit is requested, the
   transaction that is broadcast has exactly the instruction sequence, fee payer
   and blockhash of the transaction decoded from the aggregator's payload. *)
PassesThroughUnchanged ==
  (pc = "send" /\ ~IsSome(self.priority_fee) /\ ~IsSome(self.compute_unit_limit)) =>
    /\ transaction.instructions = decoded.instructions
    /\ transaction.payer = decoded.payer
    /\ transaction.recent_blockhash = decoded.recent_blockhash

(* a decoded transaction with instructions is about to be broadcast as it is *)
PassedThroughAtSend ==
  /\ pc = "send"
  /\ ~IsSome(self.priority_fee)
  /\ ~IsSome(self.compute_unit_limit)
  /\ Len(decoded.instructions) > 0
  /\ transaction.instructions = decoded.instructions

(* the amount of the first record of the output mint, "0" without one *)
FirstMatchOrZero(tx) ==
  IF ~IsSome(tx.meta) \/ ~IsSome(Unwrap(tx.meta)) THEN "0"
  ELSE LET balances == Unwrap(Unwrap(tx.meta))
           matches == {i \in 1 .. Len(balances) : balances[i].mint = OutputMint}
       IN  IF matches = {} THEN "0"
           ELSE balances[CHOOSE i \in matches : \A j \in matches : i <= j].amount

(* C13: extract_received_amount returns the amount of the first post-execution
   token-balance record whose mint is the output mint, and "0", never an error,
   when the metadata is absent, the balance list is absent or no record matches;
   the swap result is then still success = true with that amount. *)
ExtractsFirstMatchOrZero ==
  pc \in {"returned", "exit"} =>
    /\ err = "none"
    /\ received_amount = Some(FirstMatchOrZero(Unwrap(confirmed_tx)))
    /\ pc = "exit" =>
          /\ Unwrap(result).success
          /\ Unwrap(result).received_amount = received_amount
          /\ Unwrap(result).error = None

(* a confirmed swap whose balance records are all of other mints ended as a
   success with the amount "0" *)
ZeroAmountSuccess ==
  /\ pc = "exit"
  /\ IsSome(Unwrap(confirmed_tx).meta)
  /\ IsSome(Unwrap(Unwrap(confirmed_tx).meta))
  /\ Len(Unwrap(Unwrap(Unwrap(confirmed_tx).meta))) = 2
  /\ Unwrap(result).success
  /\ Unwrap(result).received_amount = Some("0")

(* C14: with a supplied route neither the swap nor the simulate command ever
   calls get_quote; get_swap_transaction is then the first external call (nothing
   checks the route's freshness before it) and it is given the value the supplied
   text parses to; without a supplied route get_quote has been called exactly once
   when get_swap_transaction is issued. *)
SuppliedRouteBypassesQuote ==
  [][/\ calls'["get_quote"] > calls["get_quote"] =>
          /\ ~IsSome(self.route_info)
          /\ calls["get_quote"] = 0
     /\ calls'["get_swap_transaction"] > calls["get_swap_transaction"] =>
          IF IsSome(self.route_info)
          THEN /\ \A c \in CallNames : calls[c] = 0
               /\ route = FromStr(Unwrap(self.route_info))
          ELSE /\ calls["get_quote"] = 1
               /\ route \in {Some(q) : q \in Quotes}]_vars

(* the simulate command has asked for the swap transaction of a supplied route *)
SuppliedRoutePassedOn ==
  /\ pc = "sim_decode"
  /\ IsSome(self.route_info)
  /\ route = FromStr(Unwrap(self.route_info))
  /\ calls["get_swap_transaction"] = 1
  /\ calls["get_quote"] = 0

(* C15: for each of the three commands and every outcome of its stages the
   process never ends in a crash; it prints exactly one result record, and its
   exit code is 0 exactly when that record has success = true. *)
OneRecordAndMatchingExitCode ==
  /\ pc \notin {"panicked", "aborted"}
  /\ Len(stdout) <= 1
  /\ IsSome(exit_code) =>
       /\ Len(stdout) = 1
       /\ stdout[1] = Unwrap(result)
       /\ (Unwrap(exit_code) = 0) <=> stdout[1].success
       /\ ~stdout[1].success => IsSome(stdout[1].error)

(* C16: the idempotency key given to the swap command is the key of the
   ExecutorResult, on the success path and on the failure path, and it changes
   nothing in the pipeline: a second run with the same key, after a run that has
   broadcast, starts from the same state as the first, and when it reaches the
   broadcast stage send_transaction is issued again. *)
KeyCarriedWithoutDeduplication ==
  /\ IsSome(result) => Unwrap(result).idempotency_key = self.idempotency_key
  /\ (invocation = 2 /\ pc = "load_wallet") =>
       (calls["send_transaction"] = 0 /\ route = None /\ signature = None)
  /\ pc = "send" => ENABLED SendTransaction

(* the second run with the key of a run that has broadcast, broadcast again and
   reported the key a second time *)
BroadcastTwiceWithSameKey ==
  /\ invocation = 2
  /\ earlier_broadcasts = 1
  /\ calls["send_transaction"] = 1
  /\ IsSome(self.idempotency_key)
  /\ pc = "exited"
  /\ Unwrap(result).success
  /\ Unwrap(result).idempotency_key = self.idempotency_key

(* how many of the five checks have been issued *)
ChecksIssued == Cardinality({i \in 1 .. Len(PingChecks) : calls[PingChecks[i]] > 0})

(* C17: the health probe issues current slot, block height, epoch info, latest
   blockhash and the account lookup in this order, each at most once; after the
   first failing check no further check is issued and the result is a failure;
   the result is a success only when all five checks passed, and it then reports
   the slot the first check returned. *)
ProbeInOrderFailFast ==
  /\ [](/\ \A i \in 1 .. Len(PingChecks) :
             /\ calls[PingChecks[i]] <= 1
             /\ i > 1 => calls[PingChecks[i]] <= calls[PingChecks[i - 1]]
        /\ err # "none" => pc \in {"ping_returned", "exit", "exited"}
        /\ IsSome(result) =>
             /\ Unwrap(result).success <=> err = "none"
             /\ Unwrap(result).success =>
                  /\ ChecksIssued = Len(PingChecks)
                  /\ IsSome(ping_slot)
                  /\ Unwrap(result).slot = ping_slot)
  /\ [][\A i \in 1 .. Len(PingChecks) :
          calls'[PingChecks[i]] > calls[PingChecks[i]] =>
            /\ err = "none"
            /\ ChecksIssued = i - 1
            /\ err' # "none" => (pc' = "ping_returned" /\ ping_slot' = ping_slot)
            /\ (i = 1 /\ err' = "none") => IsSome(ping_slot')
            /\ i > 1 => ping_slot' = ping_slot]_vars

(* all five checks passed and the probe reported the slot of the first *)
ProbeSucceeded ==
  /\ pc = "exited"
  /\ ChecksIssued = Len(PingChecks)
  /\ Unwrap(result).success
  /\ Unwrap(result).slot = Some(MaxSlot)

(* the pieces of text of a result: its error message and its log lines *)
TextsOf(r) ==
  (IF IsSome(r.error) THEN {Unwrap(r.error)[1], Unwrap(r.error)[2]} ELSE {})
    \cup UNION {{line[1], line[2]} : line \in {Unwrap(r.logs)[k] : k \in 1 .. Len(Unwrap(r.logs))}}

(* C18: the result of a failed health probe names the check that failed, the
   last one issued, and carries the end-to-end latency. *)
FailureNamesCheckAndLatency ==
  (IsSome(result) /\ ~Unwrap(result).success) =>
    /\ PingChecks[ChecksIssued] \in TextsOf(Unwrap(result))
    /\ "Response time: " \in TextsOf(Unwrap(result))

(* C19: the simulate command issues no send_transaction and no signature-status
   query; a successful result carries the route's outAmount as expected output,
   "0" when the route has none, and the compute units read from the simulation,
   and has no signature, no received amount and no slot. *)
SimulateReportsRouteOutAmount ==
  /\ calls["send_transaction"] = 0
  /\ calls["get_signature_status"] = 0
  /\ (IsSome(result) /\ Unwrap(result).success) =>
       /\ Unwrap(result).expected_out =
            Some(IF IsSome(Unwrap(route).outAmount)
                 THEN Unwrap(Unwrap(route).outAmount).text
                 ELSE "0")
       /\ Unwrap(result).compute_units_used = Some(compute_units_used)
       /\ Unwrap(result).signature = None
       /\ Unwrap(result).received_amount = None
       /\ Unwrap(result).slot = None

(* C20: a transaction rebuilt with injected directives, by the swap command and
   by the simulate command, has the fee payer of the decoded transaction and,
   after the two injected instructions, the decoded instructions in their order. *)
RebuildPreservesPayerAndOrder ==
  ((pc = "dispatch" /\ WantsBudget(self)) \/ pc = "sim_simulate") =>
    /\ transaction.payer = decoded.payer
    /\ Len(transaction.instructions) = Len(decoded.instructions) + 2
    /\ SubSeq(transaction.instructions, 3, Len(transaction.instructions))
         = decoded.instructions

(* C21: load_wallet accepts a wallet file only if it is a JSON array of exactly
   64 byte values or has exactly 64 bytes; every other content is rejected with
   the invalid-wallet-format error, and the swap command then makes no aggregator
   and no RPC call and ends as a failure. *)
WalletAcceptedOnlyAsKeyMaterial ==
  pc # "load_wallet" =>
    /\ err \notin WalletErrors =>
         /\ IsSome(wallet_data)
         /\ \/ Unwrap(wallet_data).array = Some(KeyLength)
            \/ Unwrap(wallet_data).len = KeyLength
    /\ ( /\ IsSome(wallet_data)
         /\ Unwrap(wallet_data).array # Some(KeyLength)
         /\ Unwrap(wallet_data).len # KeyLength ) => err = "InvalidWalletFormat"
    /\ err = "InvalidWalletFormat" =>
         /\ \A c \in CallNames : calls[c] = 0
         /\ IsSome(result) => ~Unwrap(result).success

(* a JSON array of 65 byte values was rejected and the command ended without a call *)
LongArrayRejected ==
  /\ pc = "exited"
  /\ IsSome(wallet_data)
  /\ Unwrap(wallet_data).array = Some(KeyLength + 1)
  /\ err = "InvalidWalletFormat"
  /\ \A c \in CallNames : calls[c] = 0
  /\ exit_code = Some(1)

====
